---- MODULE Spec2Model ----
(***************************************************************************)
(* Tool-dispatch core of the agent: the registry (agent/registry.py), the  *)
(* dispatcher (agent/agent.py: Agent.run / handle_prompt / _call_function  *)
(* / _resolve_function_name) and the provider adapters                     *)
(* (agent/llm_clients.py).                                                 *)
(*                                                                         *)
(* Strings that are compared character by character (tool names) are       *)
(* sequences of characters; messages built by f-strings are tuples of      *)
(* their parts; JSON values are records tagged with their JSON type.       *)
(***************************************************************************)
EXTENDS Integers, Sequences, FiniteSets, TLC

(***************************************************************************)
(* Bounds of the model                                                     *)
(***************************************************************************)
\* longest tool name the provider may choose
MaxLen == 3
\* most entries the registry holds in the model
MaxTools == 2
\* longest backend text, in tokens
MaxText == 6
\* most executions of tool-module bodies in one run of the process
MaxExec == 3

Alphabet == {"a", "b"}

\* every string over Alphabet of length 0..MaxLen
Strings == UNION {[1..n -> Alphabet] : n \in 0..MaxLen}

\* Python's None, a value that equals nothing but itself
None == [none |-> TRUE]

(***************************************************************************)
(* Python string order (str.__lt__): code points, a proper prefix is less  *)
(***************************************************************************)
Ord(c) == IF c = "a" THEN 97 ELSE 98

Min(x, y) == IF x <= y THEN x ELSE y

StrLess(s, t) ==
    \E i \in 1..(Min(Len(s), Len(t)) + 1) :
        /\ \A d \in 1..(i - 1) : s[d] = t[d]
        /\ \/ i = Len(s) + 1 /\ i <= Len(t)
           \/ i <= Len(s) /\ i <= Len(t) /\ Ord(s[i]) < Ord(t[i])

(***************************************************************************)
(* difflib.SequenceMatcher (no junk: isjunk is None and the autojunk       *)
(* heuristic needs 200 elements), as used by get_close_matches             *)
(***************************************************************************)
\* the blocks a[i..i+k) = b[j..j+k) (0-based offsets) inside the two ranges
MatchBlocks(a, b, alo, ahi, blo, bhi) ==
    {blk \in (alo..(ahi - 1)) \X (blo..(bhi - 1)) \X (1..Len(a)) :
        /\ blk[1] + blk[3] <= ahi
        /\ blk[2] + blk[3] <= bhi
        /\ \A d \in 0..(blk[3] - 1) : a[blk[1] + d + 1] = b[blk[2] + d + 1]}

\* find_longest_match: the longest block; of those the earliest in a; of
\* those the earliest in b; <<alo, blo, 0>> when nothing matches
find_longest_match(a, b, alo, ahi, blo, bhi) ==
    LET blocks == MatchBlocks(a, b, alo, ahi, blo, bhi)
    IN  IF blocks = {} THEN <<alo, blo, 0>>
        ELSE CHOOSE m \in blocks :
               \A o \in blocks :
                  \/ m[3] > o[3]
                  \/ m[3] = o[3] /\ m[1] < o[1]
                  \/ m[3] = o[3] /\ m[1] = o[1] /\ m[2] <= o[2]

\* get_matching_blocks, summed: the matched characters in the two ranges
RECURSIVE MatchCount(_, _, _, _, _, _)
MatchCount(a, b, alo, ahi, blo, bhi) ==
    LET m == find_longest_match(a, b, alo, ahi, blo, bhi)
    IN  IF m[3] = 0 THEN 0
        ELSE m[3]
             + (IF alo < m[1] /\ blo < m[2]
                  THEN MatchCount(a, b, alo, m[1], blo, m[2]) ELSE 0)
             + (IF m[1] + m[3] < ahi /\ m[2] + m[3] < bhi
                  THEN MatchCount(a, b, m[1] + m[3], ahi, m[2] + m[3], bhi)
                  ELSE 0)

\* _calculate_ratio: 2.0 * matches / length, 1.0 for length 0; a fraction
_calculate_ratio(matches, length) ==
    IF length > 0 THEN <<2 * matches, length>> ELSE <<1, 1>>

ratio(a, b) ==
    _calculate_ratio(MatchCount(a, b, 0, Len(a), 0, Len(b)), Len(a) + Len(b))

\* occurrences of character c in s
CountOf(s, c) == Cardinality({i \in 1..Len(s) : s[i] = c})

\* quick_ratio: the multiset intersection of the characters
quick_ratio(a, b) ==
    LET RECURSIVE Common(_)
        Common(cs) ==
            IF cs = {} THEN 0
            ELSE LET c == CHOOSE x \in cs : TRUE
                 IN  Min(CountOf(a, c), CountOf(b, c)) + Common(cs \ {c})
    IN  _calculate_ratio(Common(Alphabet), Len(a) + Len(b))

real_quick_ratio(a, b) ==
    _calculate_ratio(Min(Len(a), Len(b)), Len(a) + Len(b))

\* the cutoff passed to get_close_matches, 0.7 = CutoffNum / CutoffDen
CutoffNum == 7
CutoffDen == 10

AtLeastCutoff(r) == r[1] * CutoffDen >= CutoffNum * r[2]

\* r < s for two fractions
RatioLess(r, s) == r[1] * s[2] < s[1] * r[2]

\* get_close_matches(word, possibilities, n=1, cutoff=0.7): the candidates x
\* that pass the three filters with a = x, b = word, then
\* heapq.nlargest(1, ...) on the pairs (score, x); <<>> or <<x>>
get_close_matches_lowest_mutant(word, possibilities) ==
    LET result == {x \in possibilities :
                      /\ AtLeastCutoff(real_quick_ratio(x, word))
                      /\ AtLeastCutoff(quick_ratio(x, word))
                      /\ AtLeastCutoff(ratio(x, word))}
    IN  IF result = {} THEN <<>>
        ELSE <<CHOOSE x \in result :
                 \A y \in result \ {x} :
                    \/ RatioLess(ratio(x, word), ratio(y, word))
                    \/ /\ ~RatioLess(ratio(y, word), ratio(x, word))
                       /\ StrLess(x, y)>>
get_close_matches(word, possibilities) ==
    LET result == {x \in possibilities :
                      /\ AtLeastCutoff(real_quick_ratio(x, word))
                      /\ AtLeastCutoff(quick_ratio(x, word))
                      /\ AtLeastCutoff(ratio(x, word))}
    IN  IF result = {} THEN <<>>
        ELSE <<CHOOSE x \in result :
                 \A y \in result \ {x} :
                    \/ RatioLess(ratio(y, word), ratio(x, word))
                    \/ /\ ~RatioLess(ratio(x, word), ratio(y, word))
                       /\ StrLess(y, x)>>

(***************************************************************************)
(* Tools: the callables that modules/<pkg>/tools.py hand to @register.  A      *)
(* callable is its __name__, its __doc__ ("" when it has none), its        *)
(* declared parameters in order and the name of its var-keyword parameter    *)
(* ("" when it has none).                                                  *)
(***************************************************************************)
\* values a JSON argument may hold
ArgVals == {"v1", "v2"}

Param(n) == [name |-> n, has_default |-> FALSE, default |-> ""]
ParamDefault(n, d) == [name |-> n, has_default |-> TRUE, default |-> d]

\* def custom_eligibility_check(p, q="q0")
CustomCheck == [__name__ |-> <<"b", "a", "b">>, __doc__ |-> "doc",
                params |-> <<Param("p"), ParamDefault("q", "q0")>>,
                varkw |-> ""]
\* def f(p, and keywords kw): a tool that accepts arbitrary extra keywords
KwTool == [__name__ |-> <<"a", "b">>, __doc__ |-> "",
           params |-> <<Param("p")>>, varkw |-> "kw"]

Funcs == {CustomCheck, KwTool}

\* inspect.signature(func)
Signature(func) == [parameters |-> func.params, varkw |-> func.varkw]

ParamNames(sig) == {sig.parameters[i].name : i \in 1..Len(sig.parameters)}

(***************************************************************************)
(* agent/registry.py                                                       *)
(***************************************************************************)
\* names passed to @register(name=...); <<>> is "no name" (None or "")
RegNames ==
    {<<"a", "b">>, <<"a", "b", "b">>, <<"b", "a", "b">>, <<"a", "b", "a", "b">>}
NoName == <<>>
\* descriptions passed to @register(description=...); "" is None or ""
Descs == {"", "d1"}

\* the entry register(name, description)(func) stores, and its key
RegistryKey(name, func) == IF name # NoName THEN name ELSE func.__name__

RegistryEntry(name, description, func) ==
    [func |-> func,
     name |-> RegistryKey(name, func),
     description |-> IF description # "" THEN description ELSE func.__doc__,
     signature |-> Signature(func),
     schema |-> <<>>]

\* _REGISTRY[key] = {...}: add or overwrite one entry, keep the others
RegistryPutMutant(reg, key, entry) ==
    IF key \in DOMAIN reg THEN reg
    ELSE [k \in DOMAIN reg \cup {key} |-> IF k = key THEN entry ELSE reg[k]]
RegistryPut(reg, key, entry) ==
    [k \in DOMAIN reg \cup {key} |-> IF k = key THEN entry ELSE reg[k]]

(***************************************************************************)
(* JSON values as Python objects: [t |-> type, v |-> value]                *)
(***************************************************************************)
JNull == [t |-> "null", v |-> None]
JStr(s) == [t |-> "str", v |-> s]
JNum(n) == [t |-> "num", v |-> n]
JList(l) == [t |-> "list", v |-> l]
JObj(m) == [t |-> "obj", v |-> m]

\* bool(x)
Truthy(x) ==
    CASE x.t = "null" -> FALSE
      [] x.t = "num"  -> x.v # 0
      [] x.t = "str"  -> Len(x.v) > 0
      [] x.t = "list" -> Len(x.v) > 0
      [] x.t = "obj"  -> DOMAIN x.v # {}

\* hash(x) is defined
Hashable(x) == x.t \in {"null", "num", "str"}

\* the keys and the mappings an "args" object may hold
ArgKeys == {"p", "q", "clarification"}
ArgMaps == UNION {[ks -> ArgVals] : ks \in SUBSET ArgKeys}

\* texts of a JSON string that is not a tool name, as sequences of words
Words == {<<"clarification", "please">>, <<"hello">>}

\* the values the "name" field of the parsed object may hold;
\* "absent" is a missing field
Absent == [t |-> "absent", v |-> None]
NameVals ==
    {Absent, JNull, JNum(0), JNum(1), JList(<<>>), JList(<<"ab">>),
     JObj([p |-> "v1"])}
    \cup {JStr(s) : s \in Strings}
ArgsVals ==
    {Absent, JNull, JNum(1), JList(<<>>), JList(<<"clarification">>)}
    \cup {JStr(w) : w \in Words}
    \cup {JObj(m) : m \in ArgMaps}

\* parsed.get(key) / parsed.get(key, default) on a possibly missing field
DictGet(field, default) == IF field.t = "absent" THEN default ELSE field

(***************************************************************************)
(* inspect.Signature.bind, BoundArguments.apply_defaults and the call of   *)
(* the tool with bound_args.arguments as its keywords                      *)
(***************************************************************************)
\* the first declared parameter without a default that args does not hold;
\* 0 when there is none
FirstMissing(sig, m) ==
    LET missing == {i \in 1..Len(sig.parameters) :
                       /\ ~sig.parameters[i].has_default
                       /\ sig.parameters[i].name \notin DOMAIN m}
    IN  IF missing = {} THEN 0
        ELSE CHOOSE i \in missing : \A j \in missing : i <= j

\* sig.bind with args as keywords: [ok |-> TRUE, arguments |-> ...] or the TypeError
BindAcceptsExtraMutant(sig, args) ==
    IF args.t # "obj"
      THEN [ok |-> FALSE, arguments |-> <<>>,
            msg |-> <<"argument after ** must be a mapping, not ", args.t>>]
    ELSE IF FirstMissing(sig, args.v) # 0
      THEN [ok |-> FALSE, arguments |-> <<>>,
            msg |-> <<"missing a required argument: ",
                      sig.parameters[FirstMissing(sig, args.v)].name>>]
    ELSE [ok |-> TRUE, msg |-> <<>>,
          arguments |-> [k \in DOMAIN args.v \cap ParamNames(sig) |-> args.v[k]]]
Bind(sig, args) ==
    IF args.t # "obj"
      THEN [ok |-> FALSE, arguments |-> <<>>,
            msg |-> <<"argument after ** must be a mapping, not ", args.t>>]
    ELSE LET m == args.v
             extra == DOMAIN m \ ParamNames(sig)
             named == [k \in DOMAIN m \cap ParamNames(sig) |-> m[k]]
         IN  IF FirstMissing(sig, m) # 0
               THEN [ok |-> FALSE, arguments |-> <<>>,
                     msg |-> <<"missing a required argument: ",
                               sig.parameters[FirstMissing(sig, m)].name>>]
             ELSE IF extra = {}
               THEN [ok |-> TRUE, arguments |-> named, msg |-> <<>>]
             ELSE IF sig.varkw = ""
               THEN [ok |-> FALSE, arguments |-> <<>>,
                     msg |-> <<"got an unexpected keyword argument", extra>>]
             ELSE [ok |-> TRUE, msg |-> <<>>,
                   arguments |->
                     [k \in DOMAIN named \cup {sig.varkw} |->
                        IF k = sig.varkw THEN [x \in extra |-> m[x]]
                        ELSE named[k]]]

\* the declared default of parameter n
DefaultOf(sig, n) ==
    LET i == CHOOSE j \in 1..Len(sig.parameters) : sig.parameters[j].name = n
    IN  sig.parameters[i].default

\* bound_args.apply_defaults(): every parameter not bound gets its default,
\* the var-keyword parameter gets {}
apply_defaults(sig, arguments) ==
    LET defaulted == {sig.parameters[i].name : i \in
                        {j \in 1..Len(sig.parameters) :
                            sig.parameters[j].has_default}}
        kw == IF sig.varkw = "" THEN {} ELSE {sig.varkw}
    IN  [k \in DOMAIN arguments \cup defaulted \cup kw |->
           IF k \in DOMAIN arguments THEN arguments[k]
           ELSE IF k \in defaulted THEN DefaultOf(sig, k)
           ELSE <<>>]

\* func called with arguments as its keywords: what the body of func
\* receives.  A keyword that names a declared parameter binds to it, a
\* declared parameter without a keyword takes its default, and the keywords
\* that name no declared parameter are collected in the var-keyword
\* parameter.
CallLocals(func, arguments) ==
    LET sig == Signature(func)
        names == ParamNames(sig)
        defaulted == {sig.parameters[i].name : i \in
                        {j \in 1..Len(sig.parameters) :
                            sig.parameters[j].has_default}}
        rest == DOMAIN arguments \ names
    IN  [k \in (DOMAIN arguments \cap names) \cup defaulted
               \cup (IF func.varkw = "" THEN {} ELSE {func.varkw}) |->
           IF k \in DOMAIN arguments \cap names THEN arguments[k]
           ELSE IF k \in defaulted THEN DefaultOf(sig, k)
           ELSE [x \in rest |-> arguments[x]]]

(***************************************************************************)
(* What a tool body does when it is called: it returns a value or raises   *)
(***************************************************************************)
BodyOutcomes ==
    {[k |-> "return", exc |-> "", v |-> "r1"]}
    \cup {[k |-> "raise", exc |-> e, v |-> "boom"] :
             e \in {"TypeError", "ValueError"}}

(***************************************************************************)
(* agent/agent.py: the dispatcher.  An outcome is what the call did:       *)
(* returned a value or raised, and the tool invocations it made.           *)
(***************************************************************************)
\* resolved is <<resolved_name>> once _call_function has resolved a name
Returned(v, inv, resolved) ==
    [raised |-> FALSE, exc |-> "", value |-> v, invoked |-> inv,
     resolved |-> resolved]
Raised(e, inv, resolved) ==
    [raised |-> TRUE, exc |-> e, value |-> <<>>, invoked |-> inv,
     resolved |-> resolved]

\* Agent._resolve_function_name: [raised, found, name]
Resolved(n) == [raised |-> FALSE, found |-> TRUE, name |-> n]
NoMatch == [raised |-> FALSE, found |-> FALSE, name |-> <<>>]
ResolveRaised == [raised |-> TRUE, found |-> FALSE, name |-> <<>>]

ResolveFuzzyFirstMutant(functions, func_name) ==
    IF ~Truthy(func_name) THEN NoMatch
    ELSE IF ~Hashable(func_name) THEN ResolveRaised
    ELSE IF func_name.t # "str" THEN ResolveRaised
    ELSE LET matches == get_close_matches(func_name.v,
                                          DOMAIN functions \ {func_name.v})
         IN  IF Len(matches) > 0 THEN Resolved(matches[1])
             ELSE IF func_name.v \in DOMAIN functions
               THEN Resolved(func_name.v)
             ELSE NoMatch
_resolve_function_name(functions, func_name) ==
    IF ~Truthy(func_name) THEN NoMatch
    \* func_name in self.functions hashes func_name
    ELSE IF ~Hashable(func_name) THEN ResolveRaised
    ELSE IF func_name.t = "str" /\ func_name.v \in DOMAIN functions
      THEN Resolved(func_name.v)
    \* get_close_matches iterates over the characters of func_name
    ELSE IF func_name.t # "str" THEN ResolveRaised
    ELSE LET matches == get_close_matches(func_name.v, DOMAIN functions)
         IN  IF Len(matches) > 0 THEN Resolved(matches[1]) ELSE NoMatch

\* one invocation of a tool body
Invocation(resolved_name, func, arguments, body) ==
    [name |-> resolved_name, func |-> func, arguments |-> arguments,
     locals |-> CallLocals(func, arguments), outcome |-> body]

\* lines 80 to 86: the call of the tool and what the try statement makes of
\* it; inv is the invocation of the tool body
InvokeMixedKeysMutant(resolved_name, args, body, inv) ==
    IF body.k = "return"
      THEN Returned([function_name |-> resolved_name,
                     function_args |-> args.v,
                     function_result |-> body.v], inv, <<resolved_name>>)
    ELSE IF body.exc = "TypeError"
      THEN Returned([error |-> <<"Argument mismatch for ",
                       resolved_name, ": ", body.v>>], inv, <<resolved_name>>)
    ELSE Returned([function_name |-> resolved_name,
                   error |-> <<"Error executing ",
                     resolved_name, ": ", body.v>>], inv, <<resolved_name>>)
InvokeBoundArgsMutant(resolved_name, args, body, inv) ==
    IF body.k = "return"
      THEN Returned([function_name |-> resolved_name,
                     function_args |-> inv[1].arguments,
                     function_result |-> body.v], inv, <<resolved_name>>)
    ELSE IF body.exc = "TypeError"
      THEN Returned([error |-> <<"Argument mismatch for ",
                       resolved_name, ": ", body.v>>], inv, <<resolved_name>>)
    ELSE Returned([error |-> <<"Error executing ",
                     resolved_name, ": ", body.v>>], inv, <<resolved_name>>)
Invoke(resolved_name, args, body, inv) ==
    IF body.k = "return"
      THEN Returned([function_name |-> resolved_name,
                     function_args |-> args.v,
                     function_result |-> body.v], inv, <<resolved_name>>)
    ELSE IF body.exc = "TypeError"
      THEN Returned([error |-> <<"Argument mismatch for ",
                       resolved_name, ": ", body.v>>], inv, <<resolved_name>>)
    ELSE Returned([error |-> <<"Error executing ",
                     resolved_name, ": ", body.v>>], inv, <<resolved_name>>)

\* lines 78 to 80: bound_args is what sig.bind made of args
CallBound(resolved_name, func_details, args, body, bound_args) ==
    IF ~bound_args.ok
      THEN Returned([error |-> <<"Argument mismatch for ",
                       resolved_name, ": ", bound_args.msg>>], <<>>,
                    <<resolved_name>>)
    ELSE Invoke(resolved_name, args, body,
                <<Invocation(resolved_name, func_details.func,
                             apply_defaults(func_details.signature,
                                            bound_args.arguments), body)>>)

\* lines 70 to 75: r is what _resolve_function_name returned
CallResolved(functions, func_name, args, body, r) ==
    IF r.raised THEN Raised("TypeError", <<>>, <<>>)
    ELSE IF ~r.found
      THEN Returned([error |-> <<"Unknown function: '", func_name.v,
                                 "'.">>], <<>>, <<>>)
    ELSE CallBound(r.name, functions[r.name], args, body,
                   Bind(functions[r.name].signature, args))

\* Agent._call_function(func_name, args); body is what the tool body does
\* if it is called
_call_function(functions, func_name, args, body) ==
    CallResolved(functions, func_name, args, body,
                 _resolve_function_name(functions, func_name))

(***************************************************************************)
(* What the backend does when Agent.handle_prompt calls generate_content   *)
(***************************************************************************)
BackendOutcome(k, exc, text, name, args) ==
    [k |-> k, exc |-> exc, text |-> text, name |-> name, args |-> args]

BackendOutcomes ==
    \* generate_content raises
    {BackendOutcome("raise", e, "backend down", Absent, Absent) :
        e \in {"JSONDecodeError", "Exception"}}
    \* response.text raises (a blocked response has no text)
    \cup {BackendOutcome("text_raises", "ValueError", "no text", Absent, Absent)}
    \* the text holds no {...} span, or a span that json.loads rejects
    \cup {BackendOutcome(k, "", "some text", Absent, Absent) :
             k \in {"no_json", "bad_json"}}
    \* the span parses to an object
    \cup {BackendOutcome("object", "", "json text", n, a) :
             n \in NameVals, a \in ArgsVals}

\* "clarification" in args, for args that support the operator
Contains(args) ==
    CASE args.t = "obj"  -> "clarification" \in DOMAIN args.v
      [] args.t = "list" -> \E i \in 1..Len(args.v) : args.v[i] = "clarification"
      [] args.t = "str"  -> \E i \in 1..Len(args.v) : args.v[i] = "clarification"

\* Agent.handle_prompt(prompt): the outcome and the calls of the backend
WithCalls(out, n) ==
    [raised |-> out.raised, exc |-> out.exc, value |-> out.value,
     invoked |-> out.invoked, resolved |-> out.resolved,
     backend_calls |-> n]

DispatchParsedIsNoneMutant(functions, backend, body) ==
    LET func_name == DictGet(backend.name, JNull)
        args == DictGet(backend.args, JObj(<<>>))
    IN  IF func_name.t = "null"
          THEN IF args.t \notin {"obj", "list", "str"}
                 THEN Raised("TypeError", <<>>, <<>>)
               ELSE IF Contains(args)
                 THEN IF args.t = "obj"
                        THEN Returned([clarification |->
                                         args.v["clarification"]], <<>>, <<>>)
                      ELSE Raised("TypeError", <<>>, <<>>)
               ELSE Returned([error |->
                      <<"The agent did not select a function to execute.">>],
                      <<>>, <<>>)
        ELSE _call_function(functions, func_name, args, body)
DispatchParsed(functions, backend, body) ==
    LET func_name == DictGet(backend.name, JNull)
        args == DictGet(backend.args, JObj(<<>>))
    IN  IF ~Truthy(func_name)
          THEN IF args.t \notin {"obj", "list", "str"}
                 \* "clarification" in args: args is not iterable
                 THEN Raised("TypeError", <<>>, <<>>)
               ELSE IF Contains(args)
                 THEN IF args.t = "obj"
                        THEN Returned([clarification |->
                                         args.v["clarification"]], <<>>, <<>>)
                      \* args["clarification"] on a str or a list
                      ELSE Raised("TypeError", <<>>, <<>>)
               ELSE Returned([error |->
                      <<"The agent did not select a function to execute.">>],
                      <<>>, <<>>)
        ELSE _call_function(functions, func_name, args, body)

\* A backend text, token by token: the two braces, "k" for the key and
\* colon of an "args" member, "c" for the member "clarification": "v1" and
\* "t" for a stretch of prose
Tokens == {"{", "}", "k", "c", "t"}
Texts == UNION {[1..n -> Tokens] : n \in 0..MaxText}

\* re.search of \{.*\} with re.DOTALL: the leftmost "{" that has a "}" after
\* it, and, the star being greedy, everything up to the last "}" of the text
re_search(text) ==
    LET opens == {i \in 1..Len(text) : text[i] = "{"}
        closes == {j \in 1..Len(text) : text[j] = "}"}
    IN  IF opens = {} \/ closes = {} THEN [found |-> FALSE, span |-> <<>>]
        ELSE LET i == CHOOSE x \in opens : \A y \in opens : x <= y
                 j == CHOOSE x \in closes : \A y \in closes : x >= y
             IN  IF i < j THEN [found |-> TRUE, span |-> SubSeq(text, i, j)]
                 ELSE [found |-> FALSE, span |-> <<>>]

\* json.loads accepts the span: an object that is empty, or holds the
\* clarification member, or holds an "args" member whose value is an object
RECURSIVE IsObj(_)
IsObj(s) ==
    /\ Len(s) >= 2
    /\ s[1] = "{"
    /\ s[Len(s)] = "}"
    /\ LET m == SubSeq(s, 2, Len(s) - 1)
       IN  \/ Len(m) = 0
           \/ Len(m) = 1 /\ m[1] = "c"
           \/ Len(m) >= 1 /\ m[1] = "k" /\ IsObj(Tail(m))

\* the dict json.loads builds from a span it accepts
RECURSIVE ObjValue(_)
ObjValue(s) ==
    LET m == SubSeq(s, 2, Len(s) - 1)
    IN  IF Len(m) = 0 THEN <<>>
        ELSE IF m[1] = "c" THEN [clarification |-> "v1"]
        ELSE [args |-> JObj(ObjValue(Tail(m)))]

\* json.loads(json_str): the parsed dict, or JSONDecodeError
json_loads(s) ==
    IF IsObj(s) THEN [ok |-> TRUE, value |-> ObjValue(s)]
    ELSE [ok |-> FALSE, value |-> <<>>]

\* the fields handle_prompt reads of the parsed dict
ParsedFields(parsed, text) ==
    BackendOutcome("object", "", text,
                   IF "name" \in DOMAIN parsed THEN parsed["name"] ELSE Absent,
                   IF "args" \in DOMAIN parsed THEN parsed["args"] ELSE Absent)

\* lines 126 to 133 on a text the backend returned: what the search and
\* json.loads make of it
ParseResponse(backend) ==
    IF backend.k # "text" THEN backend
    ELSE LET json_match == re_search(backend.text)
         IN  IF ~json_match.found
               THEN BackendOutcome("no_json", "", backend.text, Absent, Absent)
             ELSE IF ~json_loads(json_match.span).ok
               THEN BackendOutcome("bad_json", "", backend.text, Absent, Absent)
             ELSE ParsedFields(json_loads(json_match.span).value, backend.text)

handle_prompt(functions, backend, body) ==
    LET response == ParseResponse(backend)
    IN  CASE response.k = "raise" /\ response.exc = "JSONDecodeError" ->
               \* the handler reads response.text; response is not bound
               WithCalls(Raised("UnboundLocalError", <<>>, <<>>), 1)
          [] response.k = "raise" /\ response.exc # "JSONDecodeError" ->
               WithCalls(Returned([error |-> <<"Agent response error: ",
                                               response.text>>], <<>>, <<>>), 1)
          [] response.k = "text_raises" ->
               WithCalls(Returned([error |-> <<"Agent response error: ",
                                               response.text>>], <<>>, <<>>), 1)
          [] response.k \in {"no_json", "bad_json"} ->
               WithCalls(Returned([error |->
                                     <<"Agent returned non-JSON response: ",
                                       response.text>>], <<>>, <<>>), 1)
          [] response.k = "object" ->
               WithCalls(DispatchParsed(functions, response, body), 1)

\* Agent.run(prompt)
run(functions, backend, body) == handle_prompt(functions, backend, body)

(***************************************************************************)
(* agent/llm_clients.py: the provider adapters.  A wire outcome is what    *)
(* the backend of an adapter does: the transport, the HTTP status, the     *)
(* body, its "choices" (Gemini: candidates), the first choice's            *)
(* "tool_calls" (Gemini: parts) and the first call's "arguments".          *)
(***************************************************************************)
Clients == {"gemini", "deepseek", "openai"}

WireOutcome(transport, status, body, choices, tool_calls, arguments) ==
    [transport |-> transport, status |-> status, body |-> body,
     choices |-> choices, tool_calls |-> tool_calls, arguments |-> arguments]

Wire ==
    {WireOutcome("fail", 0, "none", "none", "none", "none")}
    \cup {WireOutcome("ok", st, "none", "none", "none", "none") :
             st \in {401, 500}}
    \cup {WireOutcome("ok", 200, b, "none", "none", "none") :
             b \in {"not_json", "list"}}
    \cup {WireOutcome("ok", 200, "object", c, "none", "none") :
             c \in {"absent", "empty"}}
    \cup {WireOutcome("ok", 200, "object", "nonempty", t, "none") :
             t \in {"absent", "empty"}}
    \cup {WireOutcome("ok", 200, "object", "nonempty", "nonempty", a) :
             a \in {"absent", "valid", "invalid", "null"}}

\* Gemini hands the arguments over as a structure, never as JSON text
WireFor(client) ==
    IF client = "gemini"
      THEN {w \in Wire : w.arguments \notin {"invalid", "null"}}
      ELSE Wire

\* the tool call a well-formed response carries
WireName == JStr(<<"a", "b">>)
WireArgs(w) == IF w.arguments = "valid" THEN [p |-> "v1"] ELSE <<>>

AdapterReturned(v) == [raised |-> FALSE, exc |-> "", value |-> v]
AdapterRaised(e) == [raised |-> TRUE, exc |-> e, value |-> <<>>]

NoTool(text) == [name |-> JNull, args |-> [clarification |-> text]]

\* GeminiClient.get_tool_choice: the whole body is inside try/except Exception
GeminiGetToolChoice(w) ==
    IF w.transport = "fail" \/ w.status # 200 \/ w.body # "object"
      THEN AdapterReturned([error |-> <<"Gemini API Error: ", w.body>>])
    ELSE IF w.choices # "nonempty" \/ w.tool_calls # "nonempty"
      THEN AdapterReturned(NoTool("No tool was selected by Gemini."))
    ELSE AdapterReturned([name |-> WireName, args |-> WireArgs(w)])

\* DeepSeekClient.get_tool_choice: only requests.RequestException is caught
DeepSeekGetToolChoice(w) ==
    \* requests.post, raise_for_status and response.json raise a
    \* RequestException
    IF w.transport = "fail" \/ w.status # 200 \/ w.body = "not_json"
      THEN AdapterReturned([error |-> <<"OpenRouter API Error: ", w.body>>])
    \* data.get on a body that is not an object
    ELSE IF w.body # "object" THEN AdapterRaised("AttributeError")
    ELSE IF w.choices # "nonempty"
      THEN AdapterReturned(NoTool("No response from model."))
    ELSE IF w.tool_calls # "nonempty"
      THEN AdapterReturned(NoTool("No tool selected by DeepSeek."))
    \* json.loads(None)
    ELSE IF w.arguments = "null" THEN AdapterRaised("TypeError")
    ELSE IF w.arguments = "invalid"
      THEN AdapterReturned([name |-> WireName,
                            args |-> [error |-> "Invalid JSON arguments"]])
    ELSE AdapterReturned([name |-> WireName, args |-> WireArgs(w)])

\* OpenAIClient.get_tool_choice: the backend call and the reading of the
\* response are inside try/except Exception
OpenAIGetToolChoice(w) ==
    IF w.transport = "fail" \/ w.status # 200 \/ w.body # "object"
      THEN AdapterReturned([error |-> <<"OpenAI API Error: ", w.body>>])
    \* response.choices[0] on a missing or empty list
    ELSE IF w.choices # "nonempty"
      THEN AdapterReturned([error |-> <<"OpenAI API Error: ", w.choices>>])
    ELSE IF w.tool_calls # "nonempty"
      THEN AdapterReturned(NoTool("Could not choose a tool; please clarify."))
    \* json.loads of the arguments
    ELSE IF w.arguments \in {"invalid", "null", "absent"}
      THEN AdapterReturned([error |-> <<"OpenAI API Error: ", w.arguments>>])
    ELSE AdapterReturned([name |-> WireName, args |-> WireArgs(w)])

get_tool_choice(client, w) ==
    CASE client = "gemini"   -> GeminiGetToolChoice(w)
      [] client = "deepseek" -> DeepSeekGetToolChoice(w)
      [] client = "openai"   -> OpenAIGetToolChoice(w)

(***************************************************************************)
(* agent/llm_clients.py: the factory and the constructors of the clients   *)
(***************************************************************************)
\* str.lower on the letters a provider name is written with
ToLower ==
    [A |-> "a", D |-> "d", E |-> "e", G |-> "g", I |-> "i", K |-> "k",
     M |-> "m", N |-> "n", O |-> "o", P |-> "p", S |-> "s"]

Lower(str) ==
    [i \in 1..Len(str) |->
       IF str[i] \in DOMAIN ToLower THEN ToLower[str[i]] ELSE str[i]]

\* the names the factory compares the lowered provider with
GeminiName == <<"g", "e", "m", "i", "n", "i">>
DeepSeekName == <<"d", "e", "e", "p", "s", "e", "e", "k">>
OpenAIName == <<"o", "p", "e", "n", "a", "i">>

\* provider names a caller may pass
ProviderNames ==
    {GeminiName, <<"G", "e", "m", "i", "n", "i">>,
     <<"G", "E", "M", "I", "N", "I">>,
     DeepSeekName, <<"D", "e", "e", "p", "S", "e", "e", "k">>,
     <<"D", "E", "E", "P", "S", "E", "E", "K">>,
     OpenAIName, <<"O", "p", "e", "n", "A", "I">>,
     <<"O", "P", "E", "N", "A", "I">>,
     <<"g", "p", "t">>, <<"g", "e", "m", "i", "n", "i", " ">>, <<>>}

\* ALLOWED_MODELS / FREE_TIER_MODELS of the three classes
AllowedModels(class) ==
    CASE class = "gemini"   -> {"gemini-2.0-flash"}
      [] class = "deepseek" -> {"deepseek/deepseek-r1:free",
                                "deepseek/deepseek-chat-v3.1:free",
                                "tngtech/deepseek-r1t-chimera:free"}
      [] class = "openai"   -> {"gpt-4o-mini", "gpt-4o", "gpt-3.5-turbo"}

\* the model get_llm_client passes when the caller names none
DefaultModel(class) ==
    CASE class = "gemini"   -> "gemini-1.5-flash-latest"
      [] class = "deepseek" -> "deepseek/deepseek-chat-v3.1:free"
      [] class = "openai"   -> "gpt-4o-mini"

\* models a caller may pass; "" is None
ModelNames ==
    {"", "gemini-1.5-flash-latest", "other-model"}
    \cup UNION {AllowedModels(c) : c \in Clients}

\* api keys a caller may pass and the environment may hold; "" is none
ApiKeys == {"", "k1"}

FactoryReturned(v) == [raised |-> FALSE, exc |-> "", value |-> v]
FactoryRaised(e, msg) == [raised |-> TRUE, exc |-> e, value |-> msg]

\* __init__ of GeminiClient, DeepSeekClient, OpenAIClient; key is the
\* constructor argument or, without one, the environment's
ClientInit(class, key, model) ==
    IF key = ""
      THEN FactoryRaised("ValueError", <<"API key not found">>)
    ELSE IF model \notin AllowedModels(class)
      THEN FactoryRaised("ValueError", <<"Model '", model, "' not allowed">>)
    ELSE FactoryReturned([class |-> class, model |-> model, api_key |-> key])

\* get_llm_client after provider = provider.lower()
Factory(provider, key, model) ==
    IF provider = GeminiName
      THEN ClientInit("gemini", key,
                      IF model # "" THEN model ELSE DefaultModel("gemini"))
    ELSE IF provider = DeepSeekName
      THEN ClientInit("deepseek", key,
                      IF model # "" THEN model ELSE DefaultModel("deepseek"))
    ELSE IF provider = OpenAIName
      THEN ClientInit("openai", key,
                      IF model # "" THEN model ELSE DefaultModel("openai"))
    ELSE FactoryRaised("ValueError", <<"Unknown LLM provider: ", provider>>)

\* get_llm_client(provider, api_key, model) in an environment whose key
\* variable of the provider holds env_key
get_llm_client(provider, api_key, model, env_key) ==
    Factory(Lower(provider), IF api_key # "" THEN api_key ELSE env_key, model)

(***************************************************************************)
(* Discovery: the packages under modules/ and their tools modules          *)
(***************************************************************************)
\* pkgutil.iter_modules lists a directory in sorted order
Packages == {"banking", "hr"}
PackageOrder == <<"banking", "hr">>

\* what importing <package>.tools does: "ok" runs the body to its end,
\* "no_tools" raises ModuleNotFoundError before any body runs, "raises" runs
\* the body up to an exception after its first registration
ImportKinds == {"ok", "no_tools", "raises"}

\* the function object a def statement creates in run number id of a body
FuncObject(f, id) ==
    [__name__ |-> f.__name__, __doc__ |-> f.__doc__, params |-> f.params,
     varkw |-> f.varkw, id |-> id]

\* the @register calls of the body of a tools module, in order
ModuleTools(pkg) ==
    IF pkg = "banking"
      THEN <<[name |-> <<"a", "b", "b">>, description |-> "d1",
              func |-> CustomCheck]>>
      ELSE <<[name |-> <<"b", "a", "b">>, description |-> "d1",
              func |-> CustomCheck],
             [name |-> <<"a", "b">>, description |-> "d1",
              func |-> CustomCheck]>>

\* the interpreter state discovery works on
Loaded(reg, ghost, mods, execs) ==
    [reg |-> reg, ghost |-> ghost, mods |-> mods, execs |-> execs]

\* one @register call c of a body in run number id: the entry it stores
RegisterCall(st, c, func) ==
    Loaded(RegistryPut(st.reg, RegistryKey(c.name, func),
                       RegistryEntry(c.name, c.description, func)),
           [k \in DOMAIN st.ghost \cup {RegistryKey(c.name, func)} |->
              IF k = RegistryKey(c.name, func)
                THEN [name |-> c.name, description |-> c.description,
                      func |-> func]
                ELSE st.ghost[k]],
           st.mods, st.execs)

\* the first n @register calls of the body of pkg, run as run number id
RECURSIVE RunBody(_, _, _, _)
RunBody(st, pkg, n, id) ==
    IF n = 0 THEN st
    ELSE RegisterCall(RunBody(st, pkg, n - 1, id), ModuleTools(pkg)[n],
                      FuncObject(ModuleTools(pkg)[n].func, id))

\* the module is kept in sys.modules once its body has run to its end
Cached(st, pkg) == Loaded(st.reg, st.ghost, st.mods \cup {pkg}, st.execs)

\* importlib.import_module(".tools", package): a module in sys.modules is
\* not run again; a module whose body raised is not kept in sys.modules
import_module(st, kinds, pkg) ==
    IF pkg \in st.mods THEN [st |-> st, exc |-> ""]
    ELSE IF kinds[pkg] = "no_tools"
      THEN [st |-> st, exc |-> "ModuleNotFoundError"]
    ELSE IF kinds[pkg] = "ok"
      THEN [st |-> Cached(RunBody(Loaded(st.reg, st.ghost, st.mods,
                                         st.execs + 1),
                                  pkg, Len(ModuleTools(pkg)), st.execs + 1),
                          pkg),
            exc |-> ""]
    ELSE [st |-> RunBody(Loaded(st.reg, st.ghost, st.mods, st.execs + 1),
                         pkg, 1, st.execs + 1),
          exc |-> "Exception"]

\* main.load_tool_modules: every exception of an import is caught
RECURSIVE load_tool_modules(_, _, _)
load_tool_modules(st, kinds, i) ==
    IF i > Len(PackageOrder) THEN st
    ELSE load_tool_modules(import_module(st, kinds, PackageOrder[i]).st,
                           kinds, i + 1)

\* agent.load_modules: only ModuleNotFoundError is caught; r is what the
\* import of package number i did
RECURSIVE load_modules(_, _, _)
LoadNext(r, kinds, i) ==
    IF r.exc = "Exception" THEN r ELSE load_modules(r.st, kinds, i + 1)

load_modules(st, kinds, i) ==
    IF i > Len(PackageOrder) THEN [st |-> st, exc |-> ""]
    ELSE LoadNext(import_module(st, kinds, PackageOrder[i]), kinds, i)

(***************************************************************************)
(* State                                                                   *)
(***************************************************************************)
VARIABLES
    _REGISTRY,    \* registry.py: key -> entry
    registered,   \* history: key -> the arguments of the latest register
                  \* call that stored under the key
    pc,           \* "idle", or "done" when a request has just returned
    op,           \* the operation that ran last, with its inputs
    outcome,      \* what the last request did
    packages,     \* the packages under modules/: what importing the tools
                  \* module of each does
    sys_modules,  \* sys.modules: the tools modules imported so far
    executions    \* how many times the body of a tools module has run

vars == <<_REGISTRY, registered, pc, op, outcome, packages, sys_modules,
          executions>>

\* the import system and what it has loaded
importer == <<packages, sys_modules, executions>>

NoBackend == BackendOutcome("none", "", "", Absent, Absent)
NoWire == WireOutcome("none", 0, "none", "none", "none", "none")
\* replaced: a register call that overwrote an entry
Op(name, replaced, backend, client, wire) ==
    [name |-> name, replaced |-> replaced, backend |-> backend,
     client |-> client, wire |-> wire]
NoOutcome ==
    [raised |-> FALSE, exc |-> "", value |-> <<>>, invoked |-> <<>>,
     resolved |-> <<>>, backend_calls |-> 0]

\* _REGISTRY.get(name)
get_function(name) ==
    IF name \in DOMAIN _REGISTRY THEN _REGISTRY[name] ELSE None

\* get_registry()
get_registry == _REGISTRY

Init ==
    /\ _REGISTRY = <<>>
    /\ registered = <<>>
    /\ pc = "idle"
    /\ op = Op("init", FALSE, NoBackend, "", NoWire)
    /\ outcome = NoOutcome
    /\ packages = [p \in Packages |-> "ok"]
    /\ sys_modules = {}
    /\ executions = 0

\* @register(name, description) applied to func
Register(name, description, func) ==
    LET key == RegistryKey(name, func)
    IN  /\ pc = "idle"
        /\ key \in DOMAIN _REGISTRY \/ Cardinality(DOMAIN _REGISTRY) < MaxTools
        /\ _REGISTRY' = RegistryPut(_REGISTRY, key,
                                    RegistryEntry(name, description, func))
        /\ registered' = [k \in DOMAIN registered \cup {key} |->
                            IF k = key
                              THEN [name |-> name, description |-> description,
                                    func |-> func]
                              ELSE registered[k]]
        /\ op' = Op("register", key \in DOMAIN _REGISTRY, NoBackend, "",
                    NoWire)
        /\ UNCHANGED <<pc, outcome, importer>>

\* Agent.run(prompt) on an agent whose functions is get_registry()
Run(backend, body) ==
    /\ pc = "idle"
    /\ outcome' = run(get_registry, backend, body)
    /\ op' = Op("run", FALSE, backend, "", NoWire)
    /\ pc' = "done"
    /\ UNCHANGED <<_REGISTRY, registered, importer>>

\* client.get_tool_choice(prompt, functions)
GetToolChoice(client, w) ==
    /\ pc = "idle"
    /\ LET r == get_tool_choice(client, w)
       IN  outcome' = [raised |-> r.raised, exc |-> r.exc, value |-> r.value,
                       invoked |-> <<>>, resolved |-> <<>>,
                       backend_calls |-> 1]
    /\ op' = Op("get_tool_choice", FALSE, NoBackend, client, w)
    /\ pc' = "done"
    /\ UNCHANGED <<_REGISTRY, registered, importer>>

\* the caller takes the result; the next operation starts afresh
Return ==
    /\ pc = "done"
    /\ pc' = "idle"
    /\ op' = Op("return", FALSE, NoBackend, "", NoWire)
    /\ outcome' = NoOutcome
    /\ UNCHANGED <<_REGISTRY, registered, importer>>

\* the tool modules of the repository register under explicit names and
\* with explicit descriptions
Next ==
    \/ \E name \in RegNames, func \in Funcs : Register(name, "d1", func)
    \/ \E backend \in BackendOutcomes, body \in BodyOutcomes : Run(backend, body)
    \/ \E client \in Clients : \E w \in WireFor(client) : GetToolChoice(client, w)
    \/ Return

Spec == Init /\ [][Next]_vars

\* the registry alone, under every way of calling register
NextRegistry ==
    \E name \in RegNames \cup {NoName}, description \in Descs, func \in Funcs :
        Register(name, description, func)

SpecRegistry == Init /\ [][NextRegistry]_vars

(***************************************************************************)
(* The server process of main.py: startup discovery, then requests         *)
(***************************************************************************)
\* the keyword arguments Agent is constructed with, and os.environ's
\* GOOGLE_API_KEY ("" when it is not set)
AgentKwargs ==
    {<<>>, [api_key |-> "k1"], [model |-> "m1"]}
    \cup {[provider |-> c] : c \in Clients}
EnvKeys == {"", "k0"}

\* Agent.__init__ after load_modules, whose result is r
AgentLoaded(r, api_key, model_name) ==
    IF r.exc # "" THEN [exc |-> r.exc, st |-> r.st, agent |-> None]
    ELSE [exc |-> "", st |-> r.st,
          agent |-> [api_key |-> api_key, model_name |-> model_name]]

\* Agent.__init__ with its api_key and model_name settled
AgentConfigured(api_key, model_name, st, kinds) ==
    IF api_key = "" THEN [exc |-> "ValueError", st |-> st, agent |-> None]
    ELSE AgentLoaded(load_modules(st, kinds, 1), api_key, model_name)

\* Agent.__init__ called with kwargs: the constructed agent or the exception,
\* and the interpreter state its load_modules call leaves
AgentInit(kwargs, env_key, st, kinds) ==
    IF DOMAIN kwargs \ {"api_key", "model"} # {}
      \* __init__ has no such parameter
      THEN [exc |-> "TypeError", st |-> st, agent |-> None]
    ELSE AgentConfigured(
           IF "api_key" \in DOMAIN kwargs THEN kwargs.api_key ELSE env_key,
           IF "model" \in DOMAIN kwargs THEN kwargs.model
           ELSE "gemini-1.5-flash-latest",
           st, kinds)

\* what the summarizer model does: there is none (its configuration failed
\* at startup), or generate_content raises, or it answers
Summarizers == {"unavailable", "raises", "answers"}

\* main.summarize_result_for_user(query, agent_result)
summarize_result_for_user(agent_result, summarizer) ==
    IF "error" \in DOMAIN agent_result
      THEN <<"An error occurred: ", agent_result["error"]>>
    ELSE IF "clarification" \in DOMAIN agent_result
      THEN <<agent_result["clarification"]>>
    ELSE IF summarizer = "unavailable"
      THEN <<"Summarizer model is not available. Please check configuration.">>
    ELSE IF summarizer = "raises"
      THEN <<"Error summarizing the result: ", "boom">>
    ELSE <<"summary of ", agent_result["function_result"]>>

\* JSONResponse(content, status_code)
JSONResponse(content, status_code) ==
    [content |-> content, status_code |-> status_code]

\* the POST bodies of /chat and the backend outcomes of its agent
Queries == {"", "hi"}
ChatBackends ==
    {BackendOutcome("raise", "Exception", "backend down", Absent, Absent),
     BackendOutcome("object", "", "json text", JNull, JNull),
     BackendOutcome("object", "", "json text", JStr(<<"a", "b">>),
                    JObj([p |-> "v1"])),
     BackendOutcome("object", "", "json text", JNull,
                    JObj([clarification |-> "v1"]))}

\* an operation of the server with its inputs
CallOp(name, args) == [name |-> name, args |-> args]

\* what a handler did: its result, the agents it constructed and the runs
WithAgents(out, agents, runs) ==
    [raised |-> out.raised, exc |-> out.exc, value |-> out.value,
     invoked |-> out.invoked, resolved |-> out.resolved,
     backend_calls |-> runs, agents |-> agents, runs |-> runs]

\* main.chat, lines 117 to 122: agent_result is what agent.run did
ChatRespond(st, agent_result, summarizer) ==
    IF agent_result.raised
      THEN [st |-> st,
            out |-> WithAgents(Returned(
                      JSONResponse([error |-> <<agent_result.exc>>], 500),
                      agent_result.invoked, <<>>), 1, 1)]
    ELSE [st |-> st,
          out |-> WithAgents(Returned(
                    JSONResponse(
                      [result |-> summarize_result_for_user(
                                    agent_result.value, summarizer)], 200),
                    agent_result.invoked, <<>>), 1, 1)]

\* main.chat, lines 111 to 122: a is what Agent(provider=provider) did
ChatWithAgent(a, backend, body, summarizer) ==
    IF a.exc # ""
      THEN [st |-> a.st,
            out |-> WithAgents(Returned(
                      JSONResponse([error |-> <<a.exc>>], 500),
                      <<>>, <<>>), 0, 0)]
    ELSE ChatRespond(a.st, run(a.st.reg, backend, body), summarizer)

\* main.chat on the POST body {"query": query, "provider": provider}
chat(query, provider, env_key, st, kinds, backend, body, summarizer) ==
    IF query = ""
      THEN [st |-> st,
            out |-> WithAgents(Returned(
                      JSONResponse([error |-> <<"Query cannot be empty.">>],
                                   400), <<>>, <<>>), 0, 0)]
    ELSE ChatWithAgent(AgentInit([provider |-> provider], env_key, st, kinds),
                       backend, body, summarizer)

\* the interpreter state of the process
Interpreter == Loaded(_REGISTRY, registered, sys_modules, executions)

\* the process starts with discovery still to run, on any packages
InitServer ==
    /\ _REGISTRY = <<>>
    /\ registered = <<>>
    /\ pc = "startup"
    /\ op = CallOp("init", <<>>)
    /\ outcome = NoOutcome
    /\ packages \in [Packages -> ImportKinds]
    /\ sys_modules = {}
    /\ executions = 0

\* the interpreter state st becomes the state of the process
SetInterpreter(st) ==
    /\ st.execs <= MaxExec
    /\ _REGISTRY' = st.reg
    /\ registered' = st.ghost
    /\ sys_modules' = st.mods
    /\ executions' = st.execs

\* main.py line 35: load_tool_modules() before the server starts
Startup ==
    /\ pc = "startup"
    /\ SetInterpreter(load_tool_modules(Interpreter, packages, 1))
    /\ pc' = "idle"
    /\ op' = CallOp("load_tool_modules", <<>>)
    /\ UNCHANGED <<outcome, packages>>

\* the construction ends: a is what Agent.__init__ did
Constructed(a) ==
    /\ SetInterpreter(a.st)
    /\ outcome' = WithAgents(IF a.exc # "" THEN Raised(a.exc, <<>>, <<>>)
                             ELSE Returned(a.agent, <<>>, <<>>),
                             IF a.exc # "" THEN 0 ELSE 1, 0)

\* Agent(...) constructed while the server runs
ConstructAgent(kwargs, env_key) ==
    /\ pc = "idle"
    /\ Constructed(AgentInit(kwargs, env_key, Interpreter, packages))
    /\ pc' = "done"
    /\ op' = CallOp("construct", [kwargs |-> kwargs, env_key |-> env_key])
    /\ UNCHANGED packages

\* the handler ends: r is what chat did
Responded(r) ==
    /\ SetInterpreter(r.st)
    /\ outcome' = r.out

\* POST /chat
Chat(query, provider, env_key, backend, body, summarizer) ==
    /\ pc = "idle"
    /\ Responded(chat(query, provider, env_key, Interpreter, packages,
                      backend, body, summarizer))
    /\ pc' = "done"
    /\ op' = CallOp("chat", [query |-> query, provider |-> provider,
                             env_key |-> env_key])
    /\ UNCHANGED packages

NextServer ==
    \/ Startup
    \/ \E kwargs \in AgentKwargs, env_key \in EnvKeys :
          ConstructAgent(kwargs, env_key)
    \/ \E query \in Queries, provider \in Clients, env_key \in EnvKeys,
          backend \in ChatBackends, body \in BodyOutcomes,
          summarizer \in Summarizers :
          Chat(query, provider, env_key, backend, body, summarizer)
    \/ \E backend \in ChatBackends, body \in BodyOutcomes : Run(backend, body)
    \/ Return

SpecServer == InitServer /\ [][NextServer]_vars

\* the factory ends: r is what get_llm_client did
FactoryEnds(r) ==
    outcome' = [raised |-> r.raised, exc |-> r.exc, value |-> r.value,
                invoked |-> <<>>, resolved |-> <<>>, backend_calls |-> 0]

\* get_llm_client(provider, api_key, model)
GetLlmClient(provider, api_key, model, env_key) ==
    /\ pc = "idle"
    /\ FactoryEnds(get_llm_client(provider, api_key, model, env_key))
    /\ pc' = "done"
    /\ op' = CallOp("get_llm_client",
                    [provider |-> provider, api_key |-> api_key,
                     model |-> model, env_key |-> env_key])
    /\ UNCHANGED <<_REGISTRY, registered, importer>>

NextFactory ==
    \/ \E provider \in ProviderNames, api_key \in ApiKeys,
          model \in ModelNames, env_key \in ApiKeys :
          GetLlmClient(provider, api_key, model, env_key)
    \/ Return

SpecFactory == Init /\ [][NextFactory]_vars

(***************************************************************************)
(* The wait for the backend: a call path sends its request, then the       *)
(* backend answers or, where the code sets a timeout, the timeout expires   *)
(***************************************************************************)
\* the places that call a backend: Agent.handle_prompt and the adapters
CallPaths == {"agent"} \cup Clients

\* the timeout, in seconds, a call path passes with its request; 0 is none
DeepSeekTimeout == 30

TimeoutOf(path) == IF path = "deepseek" THEN DeepSeekTimeout ELSE 0

\* whether a request on the path has a deadline: the code's own timeout, or
\* one the client library applies by itself when the code passes none
\* (sdk_deadline; the libraries are outside the repository, so both cases
\* are kept)
HasDeadline(path, sdk_deadline) == TimeoutOf(path) > 0 \/ sdk_deadline

\* what the call path makes of a request that timed out: the library raises
\* (requests.Timeout is a RequestException) and the handler of the path runs
TimedOut(path) ==
    IF path = "agent"
      THEN run(get_registry,
               BackendOutcome("raise", "Exception", "timed out",
                              Absent, Absent),
               [k |-> "return", exc |-> "", v |-> "r1"])
      ELSE WithCalls(
             [raised |-> get_tool_choice(path, WireOutcome("fail", 0, "none",
                                           "none", "none", "none")).raised,
              exc |-> "",
              value |-> get_tool_choice(path, WireOutcome("fail", 0, "none",
                                          "none", "none", "none")).value,
              invoked |-> <<>>, resolved |-> <<>>], 1)

\* the request is sent and the caller blocks
BeginCall(path, sdk_deadline) ==
    /\ pc = "idle"
    /\ pc' = "waiting"
    /\ op' = CallOp("call", [path |-> path,
                             deadline |-> HasDeadline(path, sdk_deadline)])
    /\ UNCHANGED <<_REGISTRY, registered, outcome, importer>>

\* the backend of Agent.handle_prompt answers
RespondToAgent ==
    /\ pc = "waiting"
    /\ op.args.path = "agent"
    /\ \E backend \in BackendOutcomes, body \in BodyOutcomes :
          /\ outcome' = run(get_registry, backend, body)
          /\ op' = CallOp("call", [path |-> "agent",
                                   deadline |-> op.args.deadline,
                                   response |-> backend])
    /\ pc' = "done"
    /\ UNCHANGED <<_REGISTRY, registered, importer>>

\* the adapter ends: r is what get_tool_choice did
AdapterEnds(r) ==
    outcome' = [raised |-> r.raised, exc |-> r.exc, value |-> r.value,
                invoked |-> <<>>, resolved |-> <<>>, backend_calls |-> 1]

\* the backend of an adapter answers
RespondToAdapter ==
    /\ pc = "waiting"
    /\ op.args.path \in Clients
    /\ \E w \in WireFor(op.args.path) :
          /\ AdapterEnds(get_tool_choice(op.args.path, w))
          /\ op' = CallOp("call", [path |-> op.args.path,
                                   deadline |-> op.args.deadline,
                                   response |-> w])
    /\ pc' = "done"
    /\ UNCHANGED <<_REGISTRY, registered, importer>>

\* the timeout of the request expires
Expire ==
    /\ pc = "waiting"
    /\ op.args.deadline
    /\ outcome' = TimedOut(op.args.path)
    /\ pc' = "done"
    /\ UNCHANGED <<_REGISTRY, registered, op, importer>>

NextWait ==
    \/ \E path \in CallPaths, sdk_deadline \in BOOLEAN :
          BeginCall(path, sdk_deadline)
    \/ RespondToAgent
    \/ RespondToAdapter
    \/ Expire
    \/ Return

\* a deadline that is set does expire and a caller does take its result; the
\* backend is under no obligation to answer
SpecWait ==
    Init /\ [][NextWait]_vars /\ WF_vars(Expire) /\ WF_vars(Return)

\* the dispatcher on every text the backend may return
TextBackend(text) == BackendOutcome("text", "", text, Absent, Absent)

\* Agent.run on a backend that answers with a text
RunText ==
    /\ pc = "idle"
    /\ \E text \in Texts, body \in BodyOutcomes : Run(TextBackend(text), body)

NextText == RunText \/ Return

SpecText == Init /\ [][NextText]_vars

(***************************************************************************)
(* Properties                                                              *)
(***************************************************************************)
IsRun == op.name = "run"
\* the backend's text parsed to an object: the fields the dispatcher reads
Selected == IsRun /\ op.backend.k = "object"
ChosenName == DictGet(op.backend.name, JNull)
ChosenArgs == DictGet(op.backend.args, JObj(<<>>))

\* C1: Agent.run returns a result mapping for every provider response,
\* whatever JSON types "name" and "args" hold; it never raises.
C1_RunNeverRaises ==
    IsRun => ~outcome.raised /\ DOMAIN outcome.value # {}

\* C2: a chosen name that is a registry key resolves to exactly that key,
\* also when another key is a fuzzy candidate at or above the cutoff.
C2_ExactNameWins ==
    (Selected /\ ChosenName.t = "str" /\ ChosenName.v \in DOMAIN _REGISTRY)
        => ~outcome.raised /\ outcome.resolved = <<ChosenName.v>>

C2_Witness ==
    /\ Selected /\ ChosenName.t = "str" /\ ChosenName.v \in DOMAIN _REGISTRY
    /\ \E o \in DOMAIN _REGISTRY \ {ChosenName.v} :
          AtLeastCutoff(ratio(o, ChosenName.v))
    /\ outcome.resolved = <<ChosenName.v>>

\* the registered names whose similarity to word reaches the cutoff
CloseKeys(word) == {x \in DOMAIN _REGISTRY : AtLeastCutoff(ratio(x, word))}

\* C3: a chosen name that is not a registry key resolves to a registered
\* name of the highest similarity ratio if that ratio is at least 0.7; if no
\* registered name reaches 0.7 (or there is none) the outcome is the
\* "Unknown function" failure naming the chosen name, and no tool is invoked.
C3_FuzzyResolution ==
    (Selected /\ ChosenName.t = "str" /\ Truthy(ChosenName)
       /\ ChosenName.v \notin DOMAIN _REGISTRY)
        => IF CloseKeys(ChosenName.v) = {}
             THEN /\ ~outcome.raised
                  /\ outcome.resolved = <<>>
                  /\ outcome.invoked = <<>>
                  /\ outcome.value =
                       [error |-> <<"Unknown function: '", ChosenName.v, "'.">>]
             ELSE /\ ~outcome.raised
                  /\ Len(outcome.resolved) = 1
                  /\ outcome.resolved[1] \in CloseKeys(ChosenName.v)
                  /\ \A y \in DOMAIN _REGISTRY :
                        ~RatioLess(ratio(outcome.resolved[1], ChosenName.v),
                                   ratio(y, ChosenName.v))

C3_Witness ==
    /\ Selected /\ ChosenName.t = "str" /\ Truthy(ChosenName)
    /\ ChosenName.v \notin DOMAIN _REGISTRY
    /\ Len(outcome.resolved) = 1
    /\ \E y \in CloseKeys(ChosenName.v) :
          RatioLess(ratio(y, ChosenName.v),
                    ratio(outcome.resolved[1], ChosenName.v))

\* a declared parameter without a default is missing from the mapping m
MissingRequired(sig, m) ==
    \E i \in 1..Len(sig.parameters) :
        ~sig.parameters[i].has_default /\ sig.parameters[i].name \notin DOMAIN m
\* m holds a key the signature does not accept
Unexpected(sig, m) == sig.varkw = "" /\ DOMAIN m \ ParamNames(sig) # {}

\* C4: when the resolved tool is called with an args mapping, a missing
\* required parameter or an unexpected key (for a tool without a var-keyword
\* parameter) gives a failure without invoking the tool; otherwise the tool
\* is invoked and every missing parameter with a default gets that default.
C4_Binding ==
    (Selected /\ Len(outcome.resolved) = 1 /\ ChosenArgs.t = "obj")
        => LET sig == _REGISTRY[outcome.resolved[1]].signature
               m == ChosenArgs.v
           IN  IF MissingRequired(sig, m) \/ Unexpected(sig, m)
                 THEN /\ ~outcome.raised
                      /\ DOMAIN outcome.value = {"error"}
                      /\ outcome.invoked = <<>>
                 ELSE /\ Len(outcome.invoked) = 1
                      /\ \A i \in 1..Len(sig.parameters) :
                            (/\ sig.parameters[i].has_default
                             /\ sig.parameters[i].name \notin DOMAIN m)
                            => /\ sig.parameters[i].name
                                    \in DOMAIN outcome.invoked[1].locals
                               /\ outcome.invoked[1].locals[sig.parameters[i].name]
                                    = sig.parameters[i].default

C4_Witness ==
    /\ Selected /\ Len(outcome.resolved) = 1 /\ ChosenArgs.t = "obj"
    /\ Len(outcome.invoked) = 1
    /\ LET sig == _REGISTRY[outcome.resolved[1]].signature
       IN  \E i \in 1..Len(sig.parameters) :
              /\ sig.parameters[i].has_default
              /\ sig.parameters[i].name \notin DOMAIN ChosenArgs.v
              /\ outcome.invoked[1].locals[sig.parameters[i].name]
                   = sig.parameters[i].default

\* C5: whatever exception a tool body raises, TypeError included, the
\* dispatcher returns the failure "Error executing <name>: <message>".
C5_ExecutionErrorMessage ==
    (IsRun /\ Len(outcome.invoked) = 1 /\ outcome.invoked[1].outcome.k = "raise")
        => /\ ~outcome.raised
           /\ outcome.value =
                [error |-> <<"Error executing ", outcome.invoked[1].name, ": ",
                             outcome.invoked[1].outcome.v>>]

\* C6: a clarification request (no function name, args carrying the
\* clarification text M) gives the mapping {clarification: M}; no tool is
\* invoked.
C6_Clarification ==
    (Selected /\ ~Truthy(ChosenName) /\ ChosenArgs.t = "obj"
       /\ "clarification" \in DOMAIN ChosenArgs.v)
        => /\ ~outcome.raised
           /\ outcome.value = [clarification |-> ChosenArgs.v["clarification"]]
           /\ outcome.invoked = <<>>

C6_Witness ==
    /\ Selected /\ ~Truthy(ChosenName) /\ ChosenName.t = "str"
    /\ ChosenArgs.t = "obj"
    /\ DOMAIN ChosenArgs.v = {"clarification", "p"}
    /\ DOMAIN _REGISTRY # {}
    /\ outcome.value = [clarification |-> ChosenArgs.v["clarification"]]

\* the tool body of invocation inv received value v for the keyword k
Receives(inv, k, v) ==
    IF k \in ParamNames(Signature(inv.func))
      THEN inv.locals[k] = v
      ELSE /\ inv.func.varkw # ""
           /\ k \in DOMAIN inv.locals[inv.func.varkw]
           /\ inv.locals[inv.func.varkw][k] = v

\* C7: one run invokes at most one tool at most once; when the chosen name
\* resolves to tool T and args binds to T's signature, exactly T is invoked
\* exactly once and receives the supplied argument values.
C7_ExactlyOneInvocation ==
    IsRun =>
      /\ Len(outcome.invoked) <= 1
      /\ (/\ Selected /\ Len(outcome.resolved) = 1 /\ ChosenArgs.t = "obj"
          /\ ~MissingRequired(_REGISTRY[outcome.resolved[1]].signature,
                              ChosenArgs.v)
          /\ ~Unexpected(_REGISTRY[outcome.resolved[1]].signature,
                         ChosenArgs.v))
         => /\ Len(outcome.invoked) = 1
            /\ outcome.invoked[1].func = _REGISTRY[outcome.resolved[1]].func
            /\ \A k \in DOMAIN ChosenArgs.v :
                  Receives(outcome.invoked[1], k, ChosenArgs.v[k])

\* the backend outcomes that are failures: transport, authentication, HTTP
\* status, a body that is not JSON or not an object, an empty choices list,
\* tool-call arguments that are not valid JSON
WireFailure(w) ==
    \/ w.transport = "fail"
    \/ w.status \in {401, 500}
    \/ w.body \in {"not_json", "list"}
    \/ w.choices = "empty"
    \/ w.arguments = "invalid"

\* C8: for every adapter and every failing backend outcome, get_tool_choice
\* returns {error: message} and does not raise.
C8_AdapterErrorBarrier ==
    (op.name = "get_tool_choice" /\ WireFailure(op.wire))
        => ~outcome.raised /\ DOMAIN outcome.value = {"error"}

\* C9: when the provider step fails (the backend call raises, or the response
\* holds no parsable JSON object) run returns a failure mapping, the backend
\* was called exactly once and no tool was invoked.
C9_ProviderFailure ==
    (IsRun /\ op.backend.k \in {"raise", "text_raises", "no_json", "bad_json"})
        => /\ ~outcome.raised
           /\ DOMAIN outcome.value = {"error"}
           /\ outcome.backend_calls = 1
           /\ outcome.invoked = <<>>

\* every name a lookup may ask for
AllKeys == RegNames \cup Strings

\* the entry a register call with arguments c leaves
EntryOfCall(c) ==
    [func |-> c.func,
     description |-> IF c.description # "" THEN c.description
                     ELSE c.func.__doc__,
     signature |-> Signature(c.func)]

\* C10: get_function(N) returns the entry of the latest register call under
\* N (its callable, description and signature) and None for a name never
\* registered; a register call under N leaves every other entry unchanged.
C10_ReadAfterWrite ==
    /\ [](\A N \in AllKeys :
            IF N \in DOMAIN registered
              THEN /\ get_function(N) # None
                   /\ get_function(N).func = EntryOfCall(registered[N]).func
                   /\ get_function(N).description
                        = EntryOfCall(registered[N]).description
                   /\ get_function(N).signature
                        = EntryOfCall(registered[N]).signature
              ELSE get_function(N) = None)
    /\ [][\A N \in AllKeys :
            (N \notin DOMAIN registered' \/
               (N \in DOMAIN registered /\ registered'[N] = registered[N]))
            => get_function(N)' = get_function(N)]_vars

C10_Witness ==
    /\ op.name = "register" /\ op.replaced
    /\ Cardinality(DOMAIN _REGISTRY) >= 2
    /\ \E N \in DOMAIN registered :
          /\ registered[N].name = NoName
          /\ registered[N].description = ""
          /\ get_function(N).description = "doc"

\* the keys of the success mapping
SuccessKeys == {"function_name", "function_args", "function_result"}

\* C11: every mapping run returns has the keys of exactly one shape: the
\* three success keys, or error alone, or clarification alone; the success
\* shape is returned only when one tool was invoked and returned normally.
C11_ResultShapes ==
    (IsRun /\ ~outcome.raised)
        => /\ DOMAIN outcome.value
                \in {SuccessKeys, {"error"}, {"clarification"}}
           /\ DOMAIN outcome.value = SuccessKeys
                => /\ Len(outcome.invoked) = 1
                   /\ outcome.invoked[1].outcome.k = "return"

C11_Witness ==
    /\ IsRun /\ ~outcome.raised
    /\ DOMAIN outcome.value = SuccessKeys
    /\ Len(outcome.invoked) = 1
    /\ outcome.invoked[1].outcome.k = "return"

\* C12: on a successful dispatch function_args is the args mapping as the
\* provider supplied it (no default added, no key renamed or removed),
\* function_result is the value the tool returned and function_name is the
\* registry key the chosen name resolved to.
C12_SuccessFields ==
    (Selected /\ ~outcome.raised /\ DOMAIN outcome.value = SuccessKeys)
        => /\ ChosenArgs.t = "obj"
           /\ outcome.value.function_args = ChosenArgs.v
           /\ Len(outcome.invoked) = 1
           /\ outcome.value.function_result = outcome.invoked[1].outcome.v
           /\ Len(outcome.resolved) = 1
           /\ outcome.value.function_name = outcome.resolved[1]
           /\ outcome.value.function_name \in DOMAIN _REGISTRY
           /\ outcome.invoked[1].func
                = _REGISTRY[outcome.value.function_name].func

C12_Witness ==
    /\ Selected /\ ~outcome.raised /\ DOMAIN outcome.value = SuccessKeys
    /\ ChosenName.v # outcome.value.function_name
    /\ DOMAIN outcome.invoked[1].arguments # DOMAIN ChosenArgs.v
    /\ outcome.value.function_args = ChosenArgs.v

IsTextRun == IsRun /\ op.backend.k = "text"

\* the first balanced span of a text: from the first "{" up to the first "}"
\* that closes it
FirstBalanced(text) ==
    LET opens == {i \in 1..Len(text) : text[i] = "{"}
    IN  IF opens = {} THEN [found |-> FALSE, span |-> <<>>]
        ELSE LET i == CHOOSE x \in opens : \A y \in opens : x <= y
                 Depth(j) == Cardinality({x \in i..j : text[x] = "{"})
                             - Cardinality({x \in i..j : text[x] = "}"})
                 ends == {j \in i..Len(text) : Depth(j) = 0}
             IN  IF ends = {} THEN [found |-> FALSE, span |-> <<>>]
                 ELSE [found |-> TRUE,
                       span |-> SubSeq(text, i,
                                  CHOOSE x \in ends : \A y \in ends : x <= y)]

\* C13: the tool choice is parsed from the first balanced span of the
\* backend's text, whatever follows that span; when there is no such span or
\* it is not JSON the outcome is a mapping with an error message.
C13_FirstBalancedSpan ==
    IsTextRun =>
      LET fb == FirstBalanced(op.backend.text)
      IN  IF ~fb.found \/ ~IsObj(fb.span)
            THEN ~outcome.raised /\ DOMAIN outcome.value = {"error"}
            ELSE \E body \in BodyOutcomes :
                   outcome = WithCalls(
                     DispatchParsed(_REGISTRY,
                                    ParsedFields(ObjValue(fb.span),
                                                 op.backend.text), body), 1)

\* a step in which a request-time operation runs: startup discovery is over
\* and an operation starts and ends
RequestStep == pc = "idle" /\ pc' = "done"

\* C15: once startup discovery has completed, no request-time operation
\* (constructing an Agent, run, chat) adds, removes or replaces an entry of
\* the registry.
C15_RegistryReadOnly ==
    [][RequestStep => _REGISTRY' = _REGISTRY]_vars

\* C16: a /chat request with a non-empty query constructs one Agent, runs
\* it once and answers 200 with {result: text}; an empty query answers 400
\* and constructs no Agent.
C16_ChatAnswers ==
    op.name = "chat" =>
      IF op.args.query = ""
        THEN /\ outcome.value.status_code = 400
             /\ outcome.agents = 0
        ELSE /\ outcome.agents = 1
             /\ outcome.runs = 1
             /\ outcome.value.status_code = 200
             /\ DOMAIN outcome.value.content = {"result"}

\* the class a provider name selects when letter case is ignored
ClassOf(provider) ==
    CASE Lower(provider) = GeminiName   -> "gemini"
      [] Lower(provider) = DeepSeekName -> "deepseek"
      [] Lower(provider) = OpenAIName   -> "openai"
      [] OTHER                          -> "none"

\* C17: get_llm_client with a supported provider name in any letter case, a
\* non-empty api_key and no model returns a client of the provider's class
\* with the provider's default model; an unsupported name fails with
\* "Unknown LLM provider"; a model outside the allowed list fails with a
\* "not allowed" error.
C17_Factory ==
    op.name = "get_llm_client" =>
      LET class == ClassOf(op.args.provider)
      IN  /\ (class # "none" /\ op.args.api_key # "" /\ op.args.model = "")
               => /\ ~outcome.raised
                  /\ outcome.value.class = class
                  /\ outcome.value.model = DefaultModel(class)
          /\ class = "none"
               => /\ outcome.raised
                  /\ outcome.value[1] = "Unknown LLM provider: "
          /\ (/\ class # "none" /\ op.args.api_key # ""
              /\ op.args.model # ""
              /\ op.args.model \notin AllowedModels(class))
               => /\ outcome.raised
                  /\ outcome.value[3] = "' not allowed"

\* C14: on every backend call path a call whose backend never answers still
\* ends (after a bounded wait, with an error), so every request eventually
\* has a result.
C14_CallEnds == (pc = "waiting") ~> (pc = "done")

====
